---- MODULE Spec2Model ----
(***************************************************************************)
(* Model of the Binance trade ingestion pipeline of main.py:               *)
(* parse_trade_message, PostgresWriter and BinanceIngest.                  *)
(*                                                                         *)
(* The program runs on one asyncio event loop, so every stretch of code    *)
(* between two awaits is one atomic step.  Three coroutines run on it:     *)
(*   "stream" : main() -> BinanceIngest.start() -> _ws_loop(), and the     *)
(*              finally block of start() after the loop has returned;      *)
(*   "timer"  : BinanceIngest._flusher_loop(), spawned by start();         *)
(*   the signal handler's task running BinanceIngest.stop().               *)
(***************************************************************************)
EXTENDS Integers, Sequences, FiniteSets, TLC

(***************************************************************************)
(* Bounds of the model.                                                    *)
(***************************************************************************)
\* number of Ticks the feed delivers in one run
MaxTicks == 3
\* number of insert_batch calls the store fails in one run
MaxDbFails == 1
\* longest run of consecutive socket failures explored
MaxFailRun == 6
\* number of stop signals delivered in one run
MaxSignals == 1
\* CONFIG["batch_size"], scaled down from 100
batch_size == 2

\* cap of the reconnect delay (main.py line 157)
MaxDelay == 30

Tasks == {"stream", "timer"}

None == "None"

(***************************************************************************)
(* Feed messages.  A decoded message is a function from field names to     *)
(* values; an absent field is a name outside its DOMAIN.                   *)
(***************************************************************************)
\* float(): the strings it converts, with their values in hundredths;
\* any other value raises
FloatTable == [x \in {"1.50", "0.01"} |-> IF x = "1.50" THEN 150 ELSE 1]

GoodPayload == [T |-> 5, E |-> 7, s |-> "BTCUSDT", p |-> "1.50", q |-> "0.01"]

\* the raw frames the feed sends in the pipeline specification
RawMsgs ==
    { [json |-> FALSE],
      [json |-> TRUE, msg |-> [stream |-> "btcusdt@trade", data |-> GoodPayload]],
      [json |-> TRUE, msg |-> [stream |-> "btcusdt@trade",
                               data |-> [T |-> 5, p |-> "1.50", q |-> "0.01"]]],
      [json |-> TRUE, msg |-> [stream |-> "btcusdt@trade",
                               data |-> [s |-> "BTCUSDT", p |-> "1.50", q |-> "0.01"]]],
      [json |-> TRUE, msg |-> [stream |-> "btcusdt@trade",
                               data |-> [T |-> 5, s |-> "BTCUSDT", p |-> "abc", q |-> "0.01"]]] }

\* json.loads(raw): the decoded message, or a failure
json_loads(raw) ==
    IF raw.json THEN [ok |-> TRUE, msg |-> raw.msg] ELSE [ok |-> FALSE]

Has(d, k) == k \in DOMAIN d

\* data = msg.get("data", msg)
Payload(msg) == IF Has(msg, "data") THEN msg["data"] ELSE msg

\* variant: a trade time of 0 is used although it is falsy
TradeTimeMsKeepsZero(data) ==
    IF Has(data, "T") THEN <<data["T"]>>
    ELSE IF Has(data, "E") THEN <<data["E"]>>
    ELSE <<>>

\* data.get("T") or data.get("E"): <<v>> for a value, <<>> for None
TradeTimeMs(data) ==
    IF Has(data, "T") /\ data["T"] # 0 THEN <<data["T"]>>
    ELSE IF Has(data, "E") THEN <<data["E"]>>
    ELSE <<>>

\* data.get("s"): None when the field is absent
SymbolOf(data) == IF Has(data, "s") THEN data["s"] ELSE None

\* float(data.get(k)) succeeds
FloatOk(data, k) == Has(data, k) /\ data[k] \in DOMAIN FloatTable

\* parse_trade_message(msg): the Tick, or a raised exception (ok = FALSE)
parse_trade_message(msg) ==
    LET data == Payload(msg)
        t    == TradeTimeMs(data)
    IN  IF t = <<>> \/ ~FloatOk(data, "p") \/ ~FloatOk(data, "q")
        THEN [ok |-> FALSE]
        ELSE [ok |-> TRUE,
              tick |-> [ts     |-> t[1],
                        symbol |-> SymbolOf(data),
                        price  |-> FloatTable[data["p"]],
                        qty    |-> FloatTable[data["q"]]]]

\* a raw frame that yields a Tick
Parses(raw) ==
    /\ json_loads(raw).ok
    /\ parse_trade_message(json_loads(raw).msg).ok

(***************************************************************************)
(* State.                                                                  *)
(***************************************************************************)
VARIABLES
    pc,              \* where each coroutine is suspended
    queue,           \* BinanceIngest.queue
    to_insert,       \* per coroutine: the batch its _flush_queue holds in insert_batch
    store,           \* rows committed to the ticks table, in commit order
    _ws,             \* BinanceIngest._ws: None, "open", "closed" (close() called), "dead"
    _stop,           \* BinanceIngest._stop is set
    reconnect_delay, \* local of _ws_loop
    pool,            \* PostgresWriter.pool: None, "open", "closed"
    nextId,          \* arrival number of the next Tick
    nfail,           \* socket failures since the last successful connect
    droppedAt,       \* nextId when a message was last dropped, 0 before
    signals,         \* stop signals delivered
    dbFails,         \* insert_batch calls that failed
    mark,            \* per coroutine: nextId when its batch was taken, 0 otherwise
    atSignal,        \* arrival numbers of the Ticks in the buffer at a stop signal
    attempted,       \* arrival numbers of the Ticks handed to insert_batch
    fatal,           \* main() caught an exception and logged it as fatal
    exit_status,     \* <<>> while the process runs, <<n>> once it has exited with n
    msg_in,          \* parser specification: the decoded message given to the parser
    tick_out         \* parser specification: <<>>, then <<result of the parser>>

vars == <<pc, queue, to_insert, store, _ws, _stop, reconnect_delay, pool, nextId,
          nfail, droppedAt, signals, dbFails, mark, atSignal, attempted,
          fatal, exit_status, msg_in, tick_out>>

Min(a, b) == IF a < b THEN a ELSE b

Ids(s) == {s[i].id : i \in 1..Len(s)}

Init ==
    /\ pc = [stream |-> "start", timer |-> "unborn"]
    /\ queue = <<>>
    /\ to_insert = [t \in Tasks |-> <<>>]
    /\ store = <<>>
    /\ _ws = None
    /\ _stop = FALSE
    /\ reconnect_delay = 1
    /\ pool = None
    /\ nextId = 1
    /\ nfail = 0
    /\ droppedAt = 0
    /\ signals = 0
    /\ dbFails = 0
    /\ mark = [t \in Tasks |-> 0]
    /\ atSignal = {}
    /\ attempted = {}
    /\ fatal = FALSE
    /\ exit_status = <<>>
    /\ msg_in = GoodPayload
    /\ tick_out = <<>>


(***************************************************************************)
(* Helpers shared by the actions.                                          *)
(***************************************************************************)
\* variant: the loop reconnects without looking at the stop flag
LoopHeadIgnoresStop(stopped) == "connecting"
\* while not self._stop.is_set() in _ws_loop; when the loop ends, start()'s
\* finally block runs up to "await flusher_task"
LoopHead(stopped) == IF stopped THEN "join" ELSE "connecting"

\* variant: the flusher gives up after one round
TimerResumeQuits(stopped) == "done"
\* while not self._stop.is_set() in _flusher_loop, then the sleep
TimerResume(stopped) == IF stopped THEN "done" ELSE "sleep"

\* where coroutine t continues when its _flush_queue call returns
AfterFlush(t, stopped) == IF t = "stream" THEN "recv" ELSE TimerResume(stopped)

\* variant: the failed rows are not put back
PrependDrops(batch, q) == q
\* self.queue = to_insert + self.queue
Prepend(batch, q) == batch \o q

\* variant: the doubling without the cap
NextDelayUncapped(d) == d * 2
\* reconnect_delay = min(reconnect_delay * 2, 30)
NextDelay(d) == Min(d * 2, MaxDelay)

\* PostgresWriter.close: if self.pool: await self.pool.close()
PgClose(p) == IF p # None THEN "closed" ELSE p

\* the status the process exits with when main() has returned: asyncio.run
\* returns and the script ends; the only sys.exit call passes 0 as well
ExitStatus == 0

\* _flush_queue up to its await, for a non-empty buffer q: the buffer is
\* swapped out and handed to insert_batch; n is the arrival counter then
Flush(t, q, n) ==
    /\ to_insert' = [to_insert EXCEPT ![t] = q]
    /\ queue' = <<>>
    /\ mark' = [mark EXCEPT ![t] = n]
    /\ attempted' = attempted \cup Ids(q)
    /\ pc' = [pc EXCEPT ![t] = "insert"]

(***************************************************************************)
(* start(): await self.pg.start(), spawn the flusher, enter _ws_loop.      *)
(* The event loop runs its ready callbacks in FIFO order: _ws_loop runs up *)
(* to its first await (the connect) and the spawned flusher then runs up   *)
(* to its sleep before any callback scheduled later, so both are part of   *)
(* the step that resumes start().                                          *)
(***************************************************************************)
PgStartOk ==
    /\ pc["stream"] = "start"
    /\ pool' = "open"
    /\ pc' = [stream |-> LoopHead(_stop), timer |-> TimerResume(_stop)]
    /\ UNCHANGED <<queue, to_insert, store, _ws, _stop, reconnect_delay, nextId,
                   nfail, droppedAt, signals, dbFails, mark, atSignal, attempted>>
    /\ UNCHANGED <<fatal, exit_status, msg_in, tick_out>>


\* variant: a failed PostgresWriter.start is swallowed and start() goes on
PgStartFailIgnored ==
    /\ pc["stream"] = "start"
    /\ pc' = [stream |-> LoopHead(_stop), timer |-> TimerResume(_stop)]
    /\ UNCHANGED <<queue, to_insert, store, _ws, _stop, reconnect_delay, pool, nextId,
                   nfail, droppedAt, signals, dbFails, mark, atSignal, attempted>>
    /\ fatal' = TRUE
    /\ UNCHANGED <<exit_status, msg_in, tick_out>>

\* create_pool raises: the exception leaves start() before its try block,
\* main() logs it ("[FATAL] Exception in main") and returns
PgStartFail ==
    /\ pc["stream"] = "start"
    /\ pc' = [pc EXCEPT !["stream"] = "exited"]
    /\ UNCHANGED <<queue, to_insert, store, _ws, _stop, reconnect_delay, pool, nextId,
                   nfail, droppedAt, signals, dbFails, mark, atSignal, attempted>>
    /\ fatal' = TRUE
    /\ exit_status' = <<ExitStatus>>
    /\ UNCHANGED <<msg_in, tick_out>>


(***************************************************************************)
(* _ws_loop.                                                               *)
(***************************************************************************)
\* websockets.connect succeeds: self._ws = ws, reconnect_delay = 1
ConnectOk ==
    /\ pc["stream"] = "connecting"
    /\ _ws' = "open"
    /\ reconnect_delay' = 1
    /\ nfail' = 0
    /\ pc' = [pc EXCEPT !["stream"] = "recv"]
    /\ UNCHANGED <<queue, to_insert, store, _stop, pool, nextId, droppedAt,
                   signals, dbFails, mark, atSignal, attempted>>
    /\ UNCHANGED <<fatal, exit_status, msg_in, tick_out>>


\* websockets.connect raises: except Exception, sleep(reconnect_delay)
ConnectFail ==
    /\ pc["stream"] = "connecting"
    /\ nfail < MaxFailRun
    /\ nfail' = nfail + 1
    /\ pc' = [pc EXCEPT !["stream"] = "backoff"]
    /\ UNCHANGED <<queue, to_insert, store, _ws, _stop, reconnect_delay, pool, nextId,
                   droppedAt, signals, dbFails, mark, atSignal, attempted>>
    /\ UNCHANGED <<fatal, exit_status, msg_in, tick_out>>


\* variant: a read failure resets the buffer
ReadFailClearsBuffer ==
    /\ pc["stream"] = "recv"
    /\ _ws = "open"
    /\ _ws' = "dead"
    /\ nfail' = nfail + 1
    /\ queue' = <<>>
    /\ pc' = [pc EXCEPT !["stream"] = "backoff"]
    /\ UNCHANGED <<to_insert, store, _stop, reconnect_delay, pool, nextId,
                   droppedAt, signals, dbFails, mark, atSignal, attempted>>
    /\ UNCHANGED <<fatal, exit_status, msg_in, tick_out>>

\* the read of the next frame raises (abnormal closure): the connection is
\* torn down, self._ws keeps the dead object until the finally block
ReadFail ==
    /\ pc["stream"] = "recv"
    /\ _ws = "open"
    /\ _ws' = "dead"
    /\ nfail' = nfail + 1
    /\ pc' = [pc EXCEPT !["stream"] = "backoff"]
    /\ UNCHANGED <<queue, to_insert, store, _stop, reconnect_delay, pool, nextId,
                   droppedAt, signals, dbFails, mark, atSignal, attempted>>
    /\ UNCHANGED <<fatal, exit_status, msg_in, tick_out>>


\* the sleep of the except block elapses; the delay doubles, finally clears
\* self._ws, and the while condition is evaluated
BackoffElapsed ==
    /\ pc["stream"] = "backoff"
    /\ reconnect_delay' = NextDelay(reconnect_delay)
    /\ _ws' = None
    /\ pc' = [pc EXCEPT !["stream"] = LoopHead(_stop)]
    /\ UNCHANGED <<queue, to_insert, store, _stop, pool, nextId, nfail, droppedAt,
                   signals, dbFails, mark, atSignal, attempted>>
    /\ UNCHANGED <<fatal, exit_status, msg_in, tick_out>>


\* "async for raw in ws" ends: the connection was closed normally, by the
\* peer or by stop(); finally clears self._ws and the while condition is
\* evaluated
StreamEnd ==
    /\ pc["stream"] = "recv"
    /\ _ws \in {"open", "closed"}
    /\ _ws' = None
    /\ pc' = [pc EXCEPT !["stream"] = LoopHead(_stop)]
    /\ UNCHANGED <<queue, to_insert, store, _stop, reconnect_delay, pool, nextId,
                   nfail, droppedAt, signals, dbFails, mark, atSignal, attempted>>
    /\ UNCHANGED <<fatal, exit_status, msg_in, tick_out>>


\* variant: a message-level failure treated as a connection error
DropMessageFatal ==
    /\ pc' = [pc EXCEPT !["stream"] = "backoff"]
    /\ droppedAt' = nextId
    /\ UNCHANGED <<queue, to_insert, store, _ws, _stop, reconnect_delay, pool, nextId,
                   nfail, signals, dbFails, mark, atSignal, attempted>>
    /\ UNCHANGED <<fatal, exit_status, msg_in, tick_out>>
\* the except blocks around json.loads and parse_trade_message: log, continue
DropMessage ==
    /\ droppedAt' = nextId
    /\ UNCHANGED <<pc, queue, to_insert, store, _ws, _stop, reconnect_delay, pool,
                   nextId, nfail, signals, dbFails, mark, atSignal, attempted>>
    /\ UNCHANGED <<fatal, exit_status, msg_in, tick_out>>


\* variant: the size trigger fires one Tick late (> instead of >=)
AppendTickLate(tick) ==
    LET q == Append(queue, [id |-> nextId] @@ tick)
    IN  /\ nextId <= MaxTicks
        /\ nextId' = nextId + 1
        /\ IF Len(q) > batch_size
           THEN Flush("stream", q, nextId + 1)
           ELSE /\ queue' = q
                /\ UNCHANGED <<pc, to_insert, mark, attempted>>
        /\ UNCHANGED <<store, _ws, _stop, reconnect_delay, pool, nfail, droppedAt,
                       signals, dbFails, atSignal>>
        /\ UNCHANGED <<fatal, exit_status, msg_in, tick_out>>

\* self.queue.append(tick); if len(self.queue) >= self.batch_size: _flush_queue()
AppendTick(tick) ==
    LET q == Append(queue, [id |-> nextId] @@ tick)
    IN  /\ nextId <= MaxTicks
        /\ nextId' = nextId + 1
        /\ IF Len(q) >= batch_size
           THEN Flush("stream", q, nextId + 1)
           ELSE /\ queue' = q
                /\ UNCHANGED <<pc, to_insert, mark, attempted>>
        /\ UNCHANGED <<store, _ws, _stop, reconnect_delay, pool, nfail, droppedAt,
                       signals, dbFails, atSignal>>
        /\ UNCHANGED <<fatal, exit_status, msg_in, tick_out>>


\* one iteration of "async for raw in ws" on frame raw
OnMessage(raw) ==
    /\ pc["stream"] = "recv"
    /\ _ws = "open"
    /\ IF Parses(raw)
       THEN AppendTick(parse_trade_message(json_loads(raw).msg).tick)
       ELSE DropMessage

(***************************************************************************)
(* _flush_queue after its await, for either coroutine.                     *)
(***************************************************************************)
\* insert_batch returns: the transaction committed every row of the batch
InsertOk(t) ==
    /\ pc[t] = "insert"
    /\ store' = store \o to_insert[t]
    /\ to_insert' = [to_insert EXCEPT ![t] = <<>>]
    /\ mark' = [mark EXCEPT ![t] = 0]
    /\ pc' = [pc EXCEPT ![t] = AfterFlush(t, _stop)]
    /\ UNCHANGED <<queue, _ws, _stop, reconnect_delay, pool, nextId, nfail,
                   droppedAt, signals, dbFails, atSignal, attempted>>
    /\ UNCHANGED <<fatal, exit_status, msg_in, tick_out>>


\* insert_batch raises: the transaction rolled back, the rows go back to the
\* front of the buffer and the coroutine sleeps one second
InsertFail(t) ==
    /\ pc[t] = "insert"
    /\ dbFails < MaxDbFails
    /\ dbFails' = dbFails + 1
    /\ queue' = Prepend(to_insert[t], queue)
    /\ to_insert' = [to_insert EXCEPT ![t] = <<>>]
    /\ pc' = [pc EXCEPT ![t] = "cooldown"]
    /\ UNCHANGED <<store, _ws, _stop, reconnect_delay, pool, nextId, nfail,
                   droppedAt, signals, mark, atSignal, attempted>>
    /\ UNCHANGED <<fatal, exit_status, msg_in, tick_out>>


\* asyncio.sleep(1) of the except block elapses and _flush_queue returns
CooldownElapsed(t) ==
    /\ pc[t] = "cooldown"
    /\ mark' = [mark EXCEPT ![t] = 0]
    /\ pc' = [pc EXCEPT ![t] = AfterFlush(t, _stop)]
    /\ UNCHANGED <<queue, to_insert, store, _ws, _stop, reconnect_delay, pool, nextId,
                   nfail, droppedAt, signals, dbFails, atSignal, attempted>>
    /\ UNCHANGED <<fatal, exit_status, msg_in, tick_out>>


(***************************************************************************)
(* _flusher_loop.                                                          *)
(***************************************************************************)
\* sleep(flush_interval_s) elapses: if self.queue: await self._flush_queue()
TimerWake ==
    /\ pc["timer"] = "sleep"
    /\ IF queue # <<>>
       THEN Flush("timer", queue, nextId)
       ELSE /\ pc' = [pc EXCEPT !["timer"] = TimerResume(_stop)]
            /\ UNCHANGED <<queue, to_insert, mark, attempted>>
    /\ UNCHANGED <<store, _ws, _stop, reconnect_delay, pool, nextId, nfail,
                   droppedAt, signals, dbFails, atSignal>>
    /\ UNCHANGED <<fatal, exit_status, msg_in, tick_out>>


(***************************************************************************)
(* Shutdown.                                                               *)
(***************************************************************************)
\* the signal handler's task runs stop(): set the event, close the socket
\* if self._ws is set
Stop ==
    /\ signals < MaxSignals
    /\ pc["stream"] # "exited"
    /\ signals' = signals + 1
    /\ _stop' = TRUE
    /\ _ws' = IF _ws = "open" THEN "closed" ELSE _ws
    /\ atSignal' = atSignal \cup Ids(queue)
    /\ UNCHANGED <<pc, queue, to_insert, store, reconnect_delay, pool, nextId, nfail,
                   droppedAt, dbFails, mark, attempted>>
    /\ UNCHANGED <<fatal, exit_status, msg_in, tick_out>>


\* variant: the pool is closed without awaiting the flusher task
JoinFlusherNoWait ==
    /\ pc["stream"] = "join"
    /\ _stop' = TRUE
    /\ pool' = PgClose(pool)
    /\ pc' = [pc EXCEPT !["stream"] = "exited"]
    /\ UNCHANGED <<queue, to_insert, store, _ws, reconnect_delay, nextId, nfail,
                   droppedAt, signals, dbFails, mark, atSignal, attempted>>
    /\ exit_status' = <<ExitStatus>>
    /\ UNCHANGED <<fatal, msg_in, tick_out>>

\* start()'s finally: self._stop.set(); await flusher_task; await self.pg.close();
\* main() then returns and the process exits
JoinFlusher ==
    /\ pc["stream"] = "join"
    /\ pc["timer"] = "done"
    /\ _stop' = TRUE
    /\ pool' = PgClose(pool)
    /\ pc' = [pc EXCEPT !["stream"] = "exited"]
    /\ UNCHANGED <<queue, to_insert, store, _ws, reconnect_delay, nextId, nfail,
                   droppedAt, signals, dbFails, mark, atSignal, attempted>>
    /\ exit_status' = <<ExitStatus>>
    /\ UNCHANGED <<fatal, msg_in, tick_out>>


Next ==
    \/ PgStartOk
    \/ PgStartFail
    \/ ConnectOk
    \/ ConnectFail
    \/ ReadFail
    \/ BackoffElapsed
    \/ StreamEnd
    \/ \E raw \in RawMsgs : OnMessage(raw)
    \/ \E t \in Tasks : InsertOk(t)
    \/ \E t \in Tasks : InsertFail(t)
    \/ \E t \in Tasks : CooldownElapsed(t)
    \/ TimerWake
    \/ Stop
    \/ JoinFlusher

Spec == Init /\ [][Next]_vars

(***************************************************************************)
(* The parser on its own: parse_trade_message applied to one decoded       *)
(* message, drawn from every combination of absent and present fields, as  *)
(* a bare payload and inside the combined-stream wrapper.                  *)
(***************************************************************************)
\* a message with no fields
EmptyMsg == [k \in {} |-> k]

\* field k absent, or present with one of vals
Opt(k, vals) == {EmptyMsg} \cup {k :> v : v \in vals}

ParsePayloads ==
    { t @@ e @@ s @@ p @@ q :
        t \in Opt("T", {0, 5}), e \in Opt("E", {0, 7}),
        s \in Opt("s", {"BTCUSDT"}),
        p \in Opt("p", {"1.50", "abc"}), q \in Opt("q", {"0.01", "abc"}) }

\* the wrapper of the combined stream around payload d; the wrapper carries
\* fields of its own named like the payload's
Wrapped(d) ==
    [stream |-> "btcusdt@trade", data |-> d,
     T |-> 9, E |-> 9, s |-> "ETHUSDT", p |-> "0.01", q |-> "1.50"]

ParseInputs == ParsePayloads \cup {Wrapped(d) : d \in ParsePayloads}

ParseInit ==
    /\ pc = [stream |-> "start", timer |-> "unborn"]
    /\ queue = <<>>
    /\ to_insert = [t \in Tasks |-> <<>>]
    /\ store = <<>>
    /\ _ws = None
    /\ _stop = FALSE
    /\ reconnect_delay = 1
    /\ pool = None
    /\ nextId = 1
    /\ nfail = 0
    /\ droppedAt = 0
    /\ signals = 0
    /\ dbFails = 0
    /\ mark = [t \in Tasks |-> 0]
    /\ atSignal = {}
    /\ attempted = {}
    /\ fatal = FALSE
    /\ exit_status = <<>>
    /\ msg_in \in ParseInputs
    /\ tick_out = <<>>

\* tick = parse_trade_message(msg)
ParseStep ==
    /\ tick_out = <<>>
    /\ tick_out' = <<parse_trade_message(msg_in)>>
    /\ UNCHANGED <<pc, queue, to_insert, store, _ws, _stop, reconnect_delay, pool,
                   nextId, nfail, droppedAt, signals, dbFails, mark, atSignal,
                   attempted, fatal, exit_status, msg_in>>

ParseSpec == ParseInit /\ [][ParseStep]_vars


(***************************************************************************)
(* Fairness: every sleep elapses, every insert_batch call and every        *)
(* connection attempt returns, the feed delivers the frames it has, a      *)
(* closed socket ends the read loop, and start() is resumed when the       *)
(* flusher task is done.  Faults (failed inserts, failed connects, failed  *)
(* reads), the peer closing the socket and the stop signal are not forced. *)
(***************************************************************************)
FairSpec ==
    /\ Spec
    /\ WF_vars(PgStartOk \/ PgStartFail)
    /\ WF_vars(ConnectOk \/ ConnectFail)
    /\ WF_vars(BackoffElapsed)
    /\ WF_vars(StreamEnd /\ _ws = "closed")
    /\ WF_vars(\E raw \in RawMsgs : OnMessage(raw))
    /\ \A t \in Tasks : WF_vars(InsertOk(t) \/ InsertFail(t))
    /\ \A t \in Tasks : WF_vars(CooldownElapsed(t))
    /\ WF_vars(TimerWake)
    /\ WF_vars(JoinFlusher)

(***************************************************************************)
(* Claims.                                                                 *)
(***************************************************************************)
\* every Tick the program holds, buffer first
Held == queue \o to_insert["stream"] \o to_insert["timer"] \o store

\* C1: the rows committed to the store are in feed-arrival order: a Tick
\* that arrived earlier is never committed after one that arrived later.
C1_CommitOrder ==
    \A i, j \in 1..Len(store) : i < j => store[i].id < store[j].id

\* C2: every Tick appended so far is held exactly once, in the buffer, in a
\* batch in flight inside insert_batch, or in the store; in particular a
\* failed insert_batch leaves no Tick of its batch in the store and loses none.
C2_NoLossNoDup ==
    /\ Len(Held) = nextId - 1
    /\ Ids(Held) = 1..(nextId - 1)

\* C2 witness: after a failed insert the failed Tick is back in the buffer
\* while another batch is in flight and a third Tick is committed
C2_Witness ==
    /\ dbFails > 0
    /\ queue # <<>>
    /\ store # <<>>
    /\ \E t \in Tasks : to_insert[t] # <<>>

\* C3: when insert_batch fails for the batch of k Ticks a coroutine took,
\* the buffer then holds k Ticks plus every Tick appended since the batch was
\* taken, and the k Ticks are its head in their original order.
C3_FailureRestoresBuffer ==
    [][\A t \in Tasks :
          (pc[t] = "insert" /\ pc'[t] = "cooldown") =>
              /\ Len(queue') = Len(to_insert[t]) + (nextId - mark[t])
              /\ SubSeq(queue', 1, Len(to_insert[t])) = to_insert[t]]_vars

\* C4: when the pool is closed, every Tick that was in the buffer when the
\* stop signal arrived has been handed to insert_batch at least once.
C4_DrainOnShutdown ==
    pool = "closed" => atSignal \subseteq attempted

\* C5: once the stop flag is set, no further Tick is appended to the buffer.
C5_NoAppendAfterStop ==
    [][_stop => nextId' = nextId]_vars

\* C6: once the stop signal is delivered the process eventually terminates
\* (the read loop has exited, the flusher is done, the pool is closed).
C6_ShutdownTerminates ==
    (signals > 0) ~> (pc["stream"] = "exited")

\* C7: the delay slept after the n-th consecutive socket failure is
\* min(2^(n-1), 30); while connected the delay is 1; the delay is always one
\* of 1, 2, 4, 8, 16, 30.
C7_Backoff ==
    /\ reconnect_delay \in {1, 2, 4, 8, 16, MaxDelay}
    /\ pc["stream"] = "backoff" => reconnect_delay = Min(2 ^ (nfail - 1), MaxDelay)
    /\ pc["stream"] \in {"recv", "insert", "cooldown"} => reconnect_delay = 1

\* C7 witness: the sixth consecutive failure sleeps the capped delay, not 32
C7_Witness ==
    /\ pc["stream"] = "backoff"
    /\ nfail = MaxFailRun
    /\ reconnect_delay = MaxDelay

\* C8: a frame that fails JSON decoding or parse_trade_message leaves the
\* stream connected and reading, the buffer, the batches in flight and the
\* reconnect delay unchanged; and a valid frame that directly follows a
\* dropped one is parsed and appended.
C8_MessageFailureNotFatal ==
    [][\A raw \in RawMsgs :
          /\ (OnMessage(raw) /\ ~Parses(raw)) =>
                 /\ pc' = pc /\ pc'["stream"] = "recv"
                 /\ _ws' = "open"
                 /\ queue' = queue
                 /\ to_insert' = to_insert
                 /\ reconnect_delay' = reconnect_delay
                 /\ nfail' = nfail
          /\ (OnMessage(raw) /\ Parses(raw) /\ droppedAt = nextId) =>
                 nextId \in Ids(queue' \o to_insert'["stream"])]_vars

\* C8 witness: the Tick that arrived right after a dropped frame is in the
\* buffer
C8_Witness ==
    /\ droppedAt > 0
    /\ droppedAt < nextId
    /\ droppedAt \in Ids(queue)

\* C9: every Tick in the buffer has its symbol present (a payload without
\* the symbol field produces no Tick).
C9_TicksComplete ==
    \A i \in 1..Len(queue) : queue[i].symbol # None

\* all Ticks appended so far are committed and nothing is pending
Drained ==
    /\ queue = <<>>
    /\ \A t \in Tasks : to_insert[t] = <<>>
    /\ Ids(store) = 1..(nextId - 1)

\* C10: with no stop signal, once insert failures and arrivals have ceased,
\* every Tick ever appended is committed and the buffer stays empty.
C10_EventuallyCommitted ==
    <>(signals > 0) \/ <>[]Drained

\* C10 witness: an insert failed and every Tick was committed all the same
C10_Witness ==
    /\ signals = 0
    /\ dbFails = MaxDbFails
    /\ nextId = MaxTicks + 1
    /\ Drained

\* C11: when main() has caught a fatal error (PostgresWriter.start raised)
\* and the process has exited, its exit status is non-zero.
C11_FatalExitNonZero ==
    (fatal /\ exit_status # <<>>) => exit_status[1] # 0

\* C12: an append that brings the buffer to batch_size or more takes the
\* whole buffer, the new Tick last, and hands it to insert_batch in the same
\* step, so no other coroutine sees the buffer in between; a smaller buffer
\* just grows by the Tick.  When the stream's insert_batch then succeeds the
\* batch is committed in order and the buffer is as the take left it.
C12_SizeTrigger ==
    [][/\ (nextId' # nextId) =>
            IF Len(queue) + 1 >= batch_size
            THEN /\ queue' = <<>>
                 /\ pc'["stream"] = "insert"
                 /\ Len(to_insert'["stream"]) = Len(queue) + 1
                 /\ SubSeq(to_insert'["stream"], 1, Len(queue)) = queue
                 /\ to_insert'["stream"][Len(queue) + 1].id = nextId
                 /\ to_insert'["timer"] = to_insert["timer"]
            ELSE /\ Len(queue') = Len(queue) + 1
                 /\ SubSeq(queue', 1, Len(queue)) = queue
                 /\ queue'[Len(queue) + 1].id = nextId
                 /\ to_insert' = to_insert
       /\ (pc["stream"] = "insert" /\ pc'["stream"] = "recv") =>
            /\ store' = store \o to_insert["stream"]
            /\ queue' = queue]_vars

\* C12 witness: the first batch_size Ticks were taken by the size trigger as
\* one batch and the buffer is empty
C12_Witness ==
    /\ pc["stream"] = "insert"
    /\ Len(to_insert["stream"]) = batch_size
    /\ \A i \in 1..batch_size : to_insert["stream"][i].id = i
    /\ queue = <<>>
    /\ store = <<>>

\* C13: while a coroutine is in the cooldown that follows a failed
\* insert_batch, no drain attempt begins, by either coroutine.
C13_CooldownBlocksDrains ==
    [][(\E u \in Tasks : pc[u] = "cooldown") =>
          \A t \in Tasks : ~(pc[t] # "insert" /\ pc'[t] = "insert")]_vars

\* C14: when the pool is closed the read loop has returned, the flusher has
\* exited and no batch is inside insert_batch; no insert_batch starts once
\* the pool is closed; and a batch inside insert_batch, also after the stop
\* signal, leaves it only committed whole or put back whole at the head of
\* the buffer.
C14_TeardownOrder ==
    /\ [](pool = "closed" =>
            /\ pc["stream"] = "exited"
            /\ pc["timer"] = "done"
            /\ \A t \in Tasks : pc[t] # "insert" /\ to_insert[t] = <<>>)
    /\ [][\A t \in Tasks :
            /\ (pool = "closed") => pc'[t] # "insert"
            /\ (pc[t] = "insert" /\ pc'[t] # "insert") =>
                  \/ store' = store \o to_insert[t] /\ queue' = queue
                  \/ queue' = to_insert[t] \o queue /\ store' = store]_vars

\* C14 witness: the stop signal has arrived, the read loop has returned and
\* start() waits for the flusher, which is still inside insert_batch
C14_Witness ==
    /\ signals > 0
    /\ pc["stream"] = "join"
    /\ pc["timer"] = "insert"
    /\ to_insert["timer"] # <<>>
    /\ pool = "open"

\* C15: once the stop flag is set, the stream never begins a new connection
\* attempt, whether it was connected, in an error or in backoff before.
C15_NoReconnectAfterStop ==
    [][(_stop /\ pc["stream"] # "connecting") => pc'["stream"] # "connecting"]_vars

\* C15 witness: the flag was set before a backoff ended, and the loop left
\* for shutdown instead of reconnecting
C15_Witness ==
    /\ _stop
    /\ pc["stream"] = "join"
    /\ reconnect_delay > 1

\* C16: the steps of the reconnect cycle (read or connect failure, backoff,
\* the end of the read loop, a successful connect) leave the buffer, the
\* batches in flight and the store as they are; and while the stream is in
\* backoff or connecting, a sleeping flusher can wake, and when it wakes on a
\* non-empty buffer it takes the whole buffer for insert_batch.
C16_ReconnectKeepsBuffer ==
    /\ [](pc["stream"] \in {"backoff", "connecting"} /\ pc["timer"] = "sleep"
            => ENABLED TimerWake)
    /\ [][/\ (/\ pc'["stream"] # pc["stream"]
              /\ pc["stream"] \in {"recv", "backoff", "connecting"}
              /\ pc'["stream"] \in {"recv", "backoff", "connecting", "join"}) =>
                 /\ queue' = queue
                 /\ to_insert' = to_insert
                 /\ store' = store
          /\ (/\ pc["stream"] \in {"backoff", "connecting"}
              /\ pc["timer"] = "sleep" /\ pc'["timer"] # "sleep"
              /\ queue # <<>>) =>
                 /\ to_insert'["timer"] = queue
                 /\ queue' = <<>>
                 /\ pc'["timer"] = "insert"]_vars

\* C16 witness: the connection failed, the stream is in backoff with Ticks
\* still buffered and the flusher is about to wake
C16_Witness ==
    /\ pc["stream"] = "backoff"
    /\ _ws = "dead"
    /\ queue # <<>>
    /\ pc["timer"] = "sleep"

\* C17: the payload is the wrapper's data field when the message has one and
\* the whole message otherwise; the timestamp is the payload's T when T is
\* present and not 0, otherwise its E; parsing fails when neither gives a
\* value; symbol, price and quantity are the payload's s, p and q.
C17_PayloadAndTimestamp ==
    tick_out # <<>> =>
        LET r    == tick_out[1]
            pl   == IF "data" \in DOMAIN msg_in THEN msg_in["data"] ELSE msg_in
            hasT == "T" \in DOMAIN pl /\ pl["T"] # 0
            hasE == "E" \in DOMAIN pl
            num  == /\ "p" \in DOMAIN pl /\ pl["p"] \in DOMAIN FloatTable
                    /\ "q" \in DOMAIN pl /\ pl["q"] \in DOMAIN FloatTable
        IN  /\ r.ok <=> ((hasT \/ hasE) /\ num)
            /\ r.ok =>
                 /\ r.tick.ts = IF hasT THEN pl["T"] ELSE pl["E"]
                 /\ "s" \in DOMAIN pl => r.tick.symbol = pl["s"]
                 /\ r.tick.price = FloatTable[pl["p"]]
                 /\ r.tick.qty = FloatTable[pl["q"]]

\* C17 witness: a wrapped message whose payload has T = 0 and an event time
\* was parsed, and the Tick carries the event time
C17_Witness ==
    /\ tick_out # <<>>
    /\ "data" \in DOMAIN msg_in
    /\ "T" \in DOMAIN msg_in["data"] /\ msg_in["data"]["T"] = 0
    /\ "E" \in DOMAIN msg_in["data"] /\ msg_in["data"]["E"] = 7
    /\ tick_out[1].ok
    /\ tick_out[1].tick.ts = 7

\* C18: as long as PostgresWriter.start has not completed successfully (the
\* pool is None), and for good once it has failed, the stream has not begun
\* connecting, the flusher has not been started, no Tick has been appended and
\* no insert_batch attempted; and close() on a writer without a pool changes
\* nothing.
C18_StartupOrder ==
    (pool = None \/ fatal) =>
        /\ pool = None
        /\ pc["stream"] \in {"start", "exited"}
        /\ pc["timer"] = "unborn"
        /\ _ws = None
        /\ nextId = 1
        /\ queue = <<>>
        /\ attempted = {}
        /\ store = <<>>
        /\ \A t \in Tasks : to_insert[t] = <<>>
        /\ PgClose(pool) = pool

\* C18 witness: the store was unreachable at startup and the process is over
C18_Witness ==
    /\ fatal
    /\ pool = None
    /\ pc["stream"] = "exited"

\* C19: a batch handed to insert_batch never holds more than batch_size Ticks.
C19_BatchBounded ==
    \A t \in Tasks : Len(to_insert[t]) <= batch_size

\* C20: at most one insert_batch attempt is in flight: the stream's
\* size-triggered flush and the flusher's flush never both hold a batch.
C20_SingleWriter ==
    ~(pc["stream"] = "insert" /\ pc["timer"] = "insert")

====
